---- MODULE Spec2Model ----
(***************************************************************************)
(* Model of scripts/snapshots.ts: the snapshot publisher.  One run of the  *)
(* default export is a sequential script; every external command           *)
(* (spawnSync / execSync), every awaited collaborator and every file       *)
(* system step is one atomic action, its outcome (exit status) chosen      *)
(* nondeterministically.  Mirrors persist across runs; a run's clone does  *)
(* not.                                                                    *)
(***************************************************************************)
EXTENDS Integers, Sequences, FiniteSets, TLC

VARIABLES
  opts,        \* SnapshotsOptions: force, githubToken, branch
  env,         \* process environment and `git status --porcelain` output
  packages,    \* the static package table, in Object.keys order
  distReadme,  \* whether the built output of a package ships a README.md
  pc,          \* position of the run in the script
  exitCode,    \* -1 while running or thrown, else the exit status
  root,        \* TRUE once fs.mkdtempSync created the temporary root
  branch,      \* resolved branch (l.146-151)
  githubToken, \* resolved, trimmed token (l.153)
  i,           \* index of the package loop (l.178)
  clone,       \* working tree of the clone at destPath
  mirror,      \* per package: tree at the head of the mirror repository
  log,         \* steps performed in this run, in order
  errors,      \* commands reported through logger.error('Command failed')
  now,         \* last reading of the wall clock, in ticks
  run          \* number of the current invocation

vars == <<opts, env, packages, distReadme, pc, exitCode, root, branch,
          githubToken, i, clone, mirror, log, errors, now, run>>

----------------------------------------------------------------------------
\* Bounds of the model.
NumPackages == 2
MaxRuns == 2
MaxNow == 2
TicksPerSecond == 2

\* JavaScript `undefined` for an optional string / an absent env variable.
Undefined == "<undefined>"
\* The same for tokens, which are sequences of characters.
UndefinedToken == <<"<undefined>">>
\* A path that does not exist (readFileSync throws ENOENT).
NoFile == <<"<ENOENT>">>

BranchOptions == {Undefined, "", "release"}
CircleBranches == {Undefined, "", "ci"}
TokenOptions == {UndefinedToken, <<>>, <<" ">>, <<"a", " ">>}
TokenEnvs == {UndefinedToken, <<"b">>}
StatusOutputs == {"", " M file"}

Names == <<"core", "cli", "schematics", "architect">>
Repos == <<"org/core-builds", "org/cli-builds", "org/schematics-builds",
           "org/architect-builds">>
Hashes == <<"abc123", "def456", "789abc", "fed321">>

Files == {"README.md", "uniqueId", "index.js", "stale.js"}

PackageInfo(k, snap) ==
  [name |-> Names[k], dist |-> Names[k], snapshot |-> snap,
   snapshotRepo |-> Repos[k], snapshotHash |-> Hashes[k]]

PackageTables ==
  { [k \in 1..NumPackages |-> PackageInfo(k, f[k])] :
      f \in [1..NumPackages -> BOOLEAN] }

EmptyTree == [f \in Files |-> NoFile]

\* A mirror that already holds an earlier snapshot.
OldTree ==
  [f \in Files |->
     CASE f = "README.md" -> <<"old mirror readme">>
       [] f = "uniqueId"  -> <<"old id">>
       [] f = "stale.js"  -> <<"stale">>
       [] OTHER           -> <<"old index">>]

\* Built output of a package (pkg.dist after build-bazel).
Dist(pkg) ==
  [f \in Files |->
     CASE f = "index.js" -> <<pkg.name, "index">>
       [] f = "README.md" /\ distReadme -> <<pkg.name, "package readme">>
       [] OTHER -> NoFile]

----------------------------------------------------------------------------
\* Pure helpers of the script.

\* JavaScript truthiness of an optional string.
Truthy(s) == s # Undefined /\ s # ""
TruthyToken(t) == t # UndefinedToken /\ t # <<>>

RECURSIVE TrimStart(_)
TrimStart(s) ==
  IF s # <<>> /\ Head(s) = " " THEN TrimStart(Tail(s)) ELSE s

RECURSIVE TrimEnd(_)
TrimEnd(s) ==
  IF s # <<>> /\ s[Len(s)] = " " THEN TrimEnd(SubSeq(s, 1, Len(s) - 1)) ELSE s

\* String.prototype.trim
Trim(s) == TrimEnd(TrimStart(s))

\* Variant: the explicit option wins over CIRCLE_BRANCH.
ResolveBranchOptionFirst(optBranch, circleBranch) ==
  IF Truthy(optBranch) THEN optBranch
  ELSE IF circleBranch # Undefined THEN circleBranch ELSE "main"

\* l.146-151: opts.branch || 'main', then CIRCLE_BRANCH when it is a string.
ResolveBranch(optBranch, circleBranch) ==
  IF circleBranch # Undefined THEN circleBranch
  ELSE IF Truthy(optBranch) THEN optBranch ELSE "main"

\* l.153: (opts.githubToken || process.env.SNAPSHOT_BUILDS_GITHUB_TOKEN || '').trim()
ResolveToken(optToken, envToken) ==
  Trim(IF TruthyToken(optToken) THEN optToken
       ELSE IF TruthyToken(envToken) THEN envToken ELSE <<>>)

\* Variant: the force option is not consulted.
LocalChangesIgnoreForce(status, force) == status # ""

\* l.139: git status output is non-empty and force is not set.
LocalChanges(status, force) == status # "" /\ ~force

\* Variant: the token is never tested.
HasCredentialAlways(token) == TRUE

\* l.155, l.172, l.106: `if (githubToken)`.
HasCredential(token) == token # <<>>

\* Variant: the status of the command is not tested.
OnStatusIgnored(ok, next) == next

\* l.58-61: a non-zero status throws out of _exec.
OnStatus(ok, next) == IF ok THEN next ELSE "thrown"

\* Variant: the snapshot flag is not tested.
ShouldPublishAll(pkg) == TRUE

\* l.73: only packages marked for snapshotting are published.
ShouldPublish(pkg) == pkg.snapshot

\* l.19-35: the README header of a package, as lines.
readmeHeaderFn(pkg) ==
  <<"# Snapshot build of", pkg.name, "npm install", pkg.snapshotRepo, "----">>

\* Variant: the header is written below the README found in the working tree.
ReadmeHeaderLast(pkg, tree) ==
  (IF tree["README.md"] = NoFile THEN <<>> ELSE tree["README.md"]) \o
    readmeHeaderFn(pkg)

\* l.112-115: header, then the README found in the working tree (if any).
Readme(pkg, tree) ==
  readmeHeaderFn(pkg) \o
    (IF tree["README.md"] = NoFile THEN <<>> ELSE tree["README.md"])

\* l.37-50: every file of `from` overwrites the file of the same path in `to`.
_copy(from, to) ==
  [f \in Files |-> IF from[f] # NoFile THEN from[f] ELSE to[f]]

\* l.100: git rm -rf ./ removes every tracked file of the working tree.
GitRm(tree) == EmptyTree

\* l.121: '' + new Date() prints the time to the second.
DateString(t) == ToString(t \div TicksPerSecond)

\* l.89: the checkout step is guarded by the truthiness of the branch.
AfterClone(b) == IF Truthy(b) THEN "checkout" ELSE "rm"

\* l.92-95: a failed checkout falls into the catch block.
AfterCheckout(ok) == IF ok THEN "rm" ELSE "checkoutB"

\* Variant: git rm outside of a try block.
AfterRmThrows(ok) == IF ok THEN "copy" ELSE "thrown"

\* l.99-104: the outcome of git rm is ignored.
AfterRm(ok) == "copy"

\* Variant: the branch is pushed before the tag is made.
StepAfterPushBeforeTag(step) ==
  CASE step = "copy"     -> "gpgSign"
    [] step = "gpgSign"  -> "readme"
    [] step = "readme"   -> "uniqueId"
    [] step = "uniqueId" -> "add"
    [] step = "add"      -> "commit"
    [] step = "commit"   -> "push"
    [] step = "push"     -> "tag"
    [] step = "tag"      -> "pushTags"
    [] step = "pushTags" -> "loop"

\* l.104-128: the straight-line part of _publishSnapshot.
StepAfter(step) ==
  CASE step = "copy"     -> "gpgSign"
    [] step = "gpgSign"  -> "readme"
    [] step = "readme"   -> "uniqueId"
    [] step = "uniqueId" -> "add"
    [] step = "add"      -> "commit"
    [] step = "commit"   -> "tag"
    [] step = "tag"      -> "push"
    [] step = "push"     -> "pushTags"
    [] step = "pushTags" -> "loop"

----------------------------------------------------------------------------
Pkg == packages[i]

Entry(p, op, arg, ok) == [pkg |-> p, op |-> op, arg |-> arg, ok |-> ok]

\* l.52-64: run a command; a non-zero status is logged before the throw.
_exec(p, op, arg, ok) ==
  /\ log' = Append(log, Entry(p, op, arg, ok))
  /\ errors' = IF ok THEN errors ELSE Append(errors, Entry(p, op, arg, ok))

\* A step that is not run through _exec.
Step(p, op, arg, ok) ==
  /\ log' = Append(log, Entry(p, op, arg, ok))
  /\ errors' = errors

Inputs == <<opts, env, packages, distReadme, run>>

\* The process at the entry of the default export.
InitProcess ==
  /\ packages \in PackageTables
  /\ pc = "check"
  /\ exitCode = -1
  /\ root = FALSE
  /\ branch = ""
  /\ githubToken = <<>>
  /\ i = 1
  /\ clone = EmptyTree
  /\ log = <<>>
  /\ errors = <<>>
  /\ run = 1

\* One invocation under every combination of options and environment, on
\* empty mirrors or on mirrors that hold an earlier snapshot; the clock stands
\* at the end of the modelled interval, so that every reading returns the
\* same instant.
Init ==
  /\ InitProcess
  /\ opts \in [force : BOOLEAN, githubToken : TokenOptions, branch : BranchOptions]
  /\ env \in [status : StatusOutputs, CIRCLE_BRANCH : CircleBranches,
              SNAPSHOT_BUILDS_GITHUB_TOKEN : TokenEnvs]
  /\ distReadme = TRUE
  /\ \E t \in {EmptyTree, OldTree} : mirror = [k \in 1..NumPackages |-> t]
  /\ now = MaxNow

\* l.139-142
CheckStatus ==
  /\ pc = "check"
  /\ IF LocalChanges(env.status, opts.force)
       THEN pc' = "exited" /\ exitCode' = 1
       ELSE pc' = "setup" /\ exitCode' = exitCode
  /\ UNCHANGED <<Inputs, root, branch, githubToken, i, clone, mirror, log,
                 errors, now>>

\* l.144-155
Setup ==
  /\ pc = "setup"
  /\ root' = TRUE
  /\ branch' = ResolveBranch(opts.branch, env.CIRCLE_BRANCH)
  /\ githubToken' = ResolveToken(opts.githubToken, env.SNAPSHOT_BUILDS_GITHUB_TOKEN)
  /\ pc' = IF HasCredential(githubToken') THEN "userEmail" ELSE "temporaryProject"
  /\ UNCHANGED <<Inputs, exitCode, i, clone, mirror, log, errors, now>>

\* l.157
ConfigUserEmail ==
  /\ pc = "userEmail"
  /\ \E ok \in BOOLEAN :
       /\ _exec("", "config --global", "user.email", ok)
       /\ pc' = OnStatus(ok, "userName")
  /\ UNCHANGED <<Inputs, exitCode, root, branch, githubToken, i, clone, mirror, now>>

\* l.158
ConfigUserName ==
  /\ pc = "userName"
  /\ \E ok \in BOOLEAN :
       /\ _exec("", "config --global", "user.name", ok)
       /\ pc' = OnStatus(ok, "pushDefault")
  /\ UNCHANGED <<Inputs, exitCode, root, branch, githubToken, i, clone, mirror, now>>

\* l.159
ConfigPushDefault ==
  /\ pc = "pushDefault"
  /\ \E ok \in BOOLEAN :
       /\ _exec("", "config --global", "push.default", ok)
       /\ pc' = OnStatus(ok, "temporaryProject")
  /\ UNCHANGED <<Inputs, exitCode, root, branch, githubToken, i, clone, mirror, now>>

\* l.164
CreateTemporaryProject ==
  /\ pc = "temporaryProject"
  /\ \E ok \in BOOLEAN :
       /\ Step("", "createTemporaryProject", "", ok)
       /\ pc' = IF ok THEN "build" ELSE "thrown"
  /\ UNCHANGED <<Inputs, exitCode, root, branch, githubToken, i, clone, mirror, now>>

\* l.167-168
Build ==
  /\ pc = "build"
  /\ \E ok \in BOOLEAN :
       /\ Step("", "build", "snapshot", ok)
       /\ pc' = IF ok THEN "jsonHelp" ELSE "thrown"
  /\ UNCHANGED <<Inputs, exitCode, root, branch, githubToken, i, clone, mirror, now>>

\* l.170-176
JsonHelp ==
  /\ pc = "jsonHelp"
  /\ \E ok \in BOOLEAN :
       /\ Step("", "jsonHelp", "", ok)
       /\ IF ~ok THEN pc' = "thrown" /\ exitCode' = exitCode
          ELSE IF ~HasCredential(githubToken) THEN pc' = "done" /\ exitCode' = 0
          ELSE pc' = "loop" /\ exitCode' = exitCode
  /\ UNCHANGED <<Inputs, root, branch, githubToken, i, clone, mirror, now>>

\* l.178-183 and l.73-77: loop head, chdir, entry of _publishSnapshot.
Loop ==
  /\ pc = "loop"
  /\ IF i > Len(packages)
       THEN /\ pc' = "done" /\ exitCode' = 0
            /\ UNCHANGED <<i, log>>
       ELSE /\ exitCode' = exitCode
            /\ IF ShouldPublish(Pkg)
                 THEN pc' = "clone" /\ UNCHANGED <<i, log>>
                 ELSE /\ pc' = "loop" /\ i' = i + 1
                      /\ log' = Append(log, Entry(Pkg.name, "skip", "", TRUE))
  /\ UNCHANGED <<Inputs, root, branch, githubToken, clone, mirror, errors, now>>

\* l.88-89
Clone ==
  /\ pc = "clone"
  /\ \E ok \in BOOLEAN :
       /\ _exec(Pkg.name, "clone", Pkg.snapshotRepo, ok)
       /\ pc' = OnStatus(ok, AfterClone(branch))
       /\ clone' = IF ok THEN mirror[i] ELSE clone
  /\ UNCHANGED <<Inputs, exitCode, root, branch, githubToken, i, mirror, now>>

\* l.91-93
Checkout ==
  /\ pc = "checkout"
  /\ \E ok \in BOOLEAN :
       /\ _exec(Pkg.name, "checkout", branch, ok)
       /\ pc' = AfterCheckout(ok)
  /\ UNCHANGED <<Inputs, exitCode, root, branch, githubToken, i, clone, mirror, now>>

\* l.94
CheckoutNew ==
  /\ pc = "checkoutB"
  /\ \E ok \in BOOLEAN :
       /\ _exec(Pkg.name, "checkout -b", branch, ok)
       /\ pc' = OnStatus(ok, "rm")
  /\ UNCHANGED <<Inputs, exitCode, root, branch, githubToken, i, clone, mirror, now>>

\* l.99-103
Rm ==
  /\ pc = "rm"
  /\ \E ok \in BOOLEAN :
       /\ _exec(Pkg.name, "rm -rf", "./", ok)
       /\ pc' = AfterRm(ok)
       /\ clone' = IF ok THEN GitRm(clone) ELSE clone
  /\ UNCHANGED <<Inputs, exitCode, root, branch, githubToken, i, mirror, now>>

\* l.104
Copy ==
  /\ pc = "copy"
  /\ \E ok \in BOOLEAN :
       /\ Step(Pkg.name, "copy", Pkg.dist, ok)
       /\ pc' = IF ~ok THEN "thrown"
                ELSE IF HasCredential(githubToken) THEN StepAfter("copy")
                ELSE StepAfter("gpgSign")
       /\ clone' = IF ok THEN _copy(Dist(Pkg), clone) ELSE clone
  /\ UNCHANGED <<Inputs, exitCode, root, branch, githubToken, i, mirror, now>>

\* l.106-108
ConfigGpgSign ==
  /\ pc = "gpgSign"
  /\ \E ok \in BOOLEAN :
       /\ _exec(Pkg.name, "config", "commit.gpgSign", ok)
       /\ pc' = OnStatus(ok, StepAfter("gpgSign"))
  /\ UNCHANGED <<Inputs, exitCode, root, branch, githubToken, i, clone, mirror, now>>

\* l.110-117
WriteReadme ==
  /\ pc = "readme"
  /\ Step(Pkg.name, "write README.md", "", TRUE)
  /\ clone' = [clone EXCEPT !["README.md"] = Readme(Pkg, clone)]
  /\ pc' = StepAfter("readme")
  /\ UNCHANGED <<Inputs, exitCode, root, branch, githubToken, i, mirror, now>>

\* l.121
WriteUniqueId ==
  /\ pc = "uniqueId"
  /\ \E t \in now..MaxNow :
       /\ now' = t
       /\ clone' = [clone EXCEPT !["uniqueId"] = <<DateString(t)>>]
  /\ Step(Pkg.name, "write uniqueId", "", TRUE)
  /\ pc' = StepAfter("uniqueId")
  /\ UNCHANGED <<Inputs, exitCode, root, branch, githubToken, i, mirror>>

\* l.124
Add ==
  /\ pc = "add"
  /\ \E ok \in BOOLEAN :
       /\ _exec(Pkg.name, "add", ".", ok)
       /\ pc' = OnStatus(ok, StepAfter("add"))
  /\ UNCHANGED <<Inputs, exitCode, root, branch, githubToken, i, clone, mirror, now>>

\* l.125
Commit ==
  /\ pc = "commit"
  /\ \E ok \in BOOLEAN :
       /\ _exec(Pkg.name, "commit", "message", ok)
       /\ pc' = OnStatus(ok, StepAfter("commit"))
  /\ UNCHANGED <<Inputs, exitCode, root, branch, githubToken, i, clone, mirror, now>>

\* l.126
Tag ==
  /\ pc = "tag"
  /\ \E ok \in BOOLEAN :
       /\ _exec(Pkg.name, "tag", Pkg.snapshotHash, ok)
       /\ pc' = OnStatus(ok, StepAfter("tag"))
  /\ UNCHANGED <<Inputs, exitCode, root, branch, githubToken, i, clone, mirror, now>>

\* l.127: a successful push moves the head of the mirror to the commit.
Push ==
  /\ pc = "push"
  /\ \E ok \in BOOLEAN :
       /\ _exec(Pkg.name, "push", branch, ok)
       /\ pc' = OnStatus(ok, StepAfter("push"))
       /\ mirror' = IF ok THEN [mirror EXCEPT ![i] = clone] ELSE mirror
  /\ UNCHANGED <<Inputs, exitCode, root, branch, githubToken, i, clone, now>>

\* l.128-129 and the loop increment of l.178
PushTags ==
  /\ pc = "pushTags"
  /\ \E ok \in BOOLEAN :
       /\ _exec(Pkg.name, "push --tags", branch, ok)
       /\ pc' = OnStatus(ok, StepAfter("pushTags"))
       /\ i' = IF ok THEN i + 1 ELSE i
  /\ UNCHANGED <<Inputs, exitCode, root, branch, githubToken, clone, mirror, now>>

\* The script is invoked again (a later CI job on the same configuration):
\* process state starts afresh, the mirrors and the clock carry over.
NewRun ==
  /\ pc \in {"done", "exited", "thrown"}
  /\ run < MaxRuns
  /\ run' = run + 1
  /\ pc' = "check"
  /\ exitCode' = -1
  /\ root' = FALSE
  /\ branch' = ""
  /\ githubToken' = <<>>
  /\ i' = 1
  /\ clone' = EmptyTree
  /\ log' = <<>>
  /\ errors' = <<>>
  /\ UNCHANGED <<opts, env, packages, distReadme, mirror, now>>

Next ==
  \/ CheckStatus \/ Setup
  \/ ConfigUserEmail \/ ConfigUserName \/ ConfigPushDefault
  \/ CreateTemporaryProject \/ Build \/ JsonHelp
  \/ Loop \/ Clone \/ Checkout \/ CheckoutNew \/ Rm \/ Copy \/ ConfigGpgSign
  \/ WriteReadme \/ WriteUniqueId \/ Add \/ Commit \/ Tag \/ Push \/ PushTags

Spec == Init /\ [][Next]_vars

\* Repeated invocations of the same CI job publishing to the same mirrors
\* (token from the environment, branch left to its default), for every
\* content of the build output and of the mirrors, the clock running.
InitRerun ==
  /\ InitProcess
  /\ opts \in [force : BOOLEAN, githubToken : {UndefinedToken}, branch : {Undefined}]
  /\ env \in [status : StatusOutputs, CIRCLE_BRANCH : {Undefined},
              SNAPSHOT_BUILDS_GITHUB_TOKEN : TokenEnvs]
  /\ distReadme \in BOOLEAN
  /\ \E t \in {EmptyTree, OldTree} : mirror = [k \in 1..NumPackages |-> t]
  /\ now = 0

NextRerun == Next \/ NewRun

SpecRerun == InitRerun /\ [][NextRerun]_vars

----------------------------------------------------------------------------
\* Vocabulary of the properties.

GitOps == {"clone", "checkout", "checkout -b", "rm -rf", "config", "add",
           "commit", "tag", "push", "push --tags"}
WriteOps == {"copy", "write README.md", "write uniqueId"}
BranchOps == {"checkout", "checkout -b", "push", "push --tags"}
FatalOps == {"clone", "config", "add", "commit", "tag", "push", "push --tags"}

NameIdx(n) == CHOOSE k \in 1..Len(packages) : packages[k].name = n

Rank(op) ==
  CASE op = "clone" -> 1
    [] op = "checkout" -> 2
    [] op = "checkout -b" -> 3
    [] op = "rm -rf" -> 4
    [] op = "copy" -> 5
    [] op = "config" -> 6
    [] op = "write README.md" -> 7
    [] op = "write uniqueId" -> 8
    [] op = "add" -> 9
    [] op = "commit" -> 10
    [] op = "tag" -> 11
    [] op = "push" -> 12
    [] op = "push --tags" -> 13
    [] OTHER -> 0

ClonedNames == LET c == SelectSeq(log, LAMBDA e : e.op = "clone")
               IN  [k \in 1..Len(c) |-> c[k].pkg]
SnapshotNames == LET p == SelectSeq(packages, LAMBDA q : q.snapshot)
                 IN  [k \in 1..Len(p) |-> p[k].name]
IsPrefix(s, t) == Len(s) <= Len(t) /\ \A k \in 1..Len(s) : s[k] = t[k]
Count(p, op) == Len(SelectSeq(log, LAMBDA e : e.pkg = p /\ e.op = op))

\* C1 (as stated): the branch of every checkout and push is the `branch`
\* option when given, else CIRCLE_BRANCH when set, else "main".
C1_OptionBeatsCircleBranch ==
  \A k \in 1..Len(log) :
    log[k].op \in BranchOps =>
      log[k].arg = IF Truthy(opts.branch) THEN opts.branch
                   ELSE IF env.CIRCLE_BRANCH # Undefined THEN env.CIRCLE_BRANCH
                   ELSE "main"

\* C1 (amended): the branch of every checkout and push is CIRCLE_BRANCH
\* whenever that variable is set, else the non-empty `branch` option, else
\* "main".
C1_CircleBranchBeatsOption ==
  \A k \in 1..Len(log) :
    log[k].op \in BranchOps =>
      /\ env.CIRCLE_BRANCH # Undefined => log[k].arg = env.CIRCLE_BRANCH
      /\ env.CIRCLE_BRANCH = Undefined /\ opts.branch \notin {Undefined, ""}
           => log[k].arg = opts.branch
      /\ env.CIRCLE_BRANCH = Undefined /\ opts.branch \in {Undefined, ""}
           => log[k].arg = "main"

C1_Witness ==
  /\ opts.branch = "release"
  /\ env.CIRCLE_BRANCH = "ci"
  /\ \E k \in 1..Len(log) : log[k].op = "push" /\ log[k].ok

\* C2: a dirty tree without force ends the run with exit code 1 before the
\* temporary directory exists and before any step is performed; with force,
\* or a clean tree, the run never exits that way and goes on to the setup.
C2_DirtyTreeExitsFirst ==
  /\ (env.status # "" /\ ~opts.force /\ pc # "check") =>
       /\ pc = "exited" /\ exitCode = 1
       /\ ~root /\ log = <<>> /\ errors = <<>>
  /\ (env.status = "" \/ opts.force) =>
       /\ pc # "exited" /\ exitCode # 1
       /\ pc \notin {"check", "setup"} => root

C2_Witness == pc = "exited" /\ exitCode = 1 /\ env.status # "" /\ ~opts.force

\* C3: without a credential no git command is ever run, the run can only
\* stop on a failing collaborator, and it returns 0 after the build and the
\* help generation, in that order.
NoCredential ==
  /\ opts.githubToken \in {UndefinedToken, <<>>}
  /\ env.SNAPSHOT_BUILDS_GITHUB_TOKEN \in {UndefinedToken, <<>>}

C3_NoCredentialDryRun ==
  NoCredential =>
    /\ \A k \in 1..Len(log) :
         log[k].op \notin GitOps \cup WriteOps \cup {"config --global", "skip"}
    /\ errors = <<>>
    /\ pc = "done" =>
         /\ exitCode = 0
         /\ Len(log) = 3
         /\ log[1].op = "createTemporaryProject" /\ log[1].ok
         /\ log[2].op = "build" /\ log[2].ok
         /\ log[3].op = "jsonHelp" /\ log[3].ok
    /\ pc = "thrown" => ~log[Len(log)].ok
    /\ pc = "exited" => env.status # "" /\ ~opts.force

C3_Witness == NoCredential /\ pc = "done" /\ exitCode = 0 /\ Len(log) = 3

\* C4: git commands and file writes happen only for packages marked for
\* snapshotting, packages are visited in table order, and a completed run
\* has cloned each snapshot package exactly once and skipped each other one.
C4_ExactlySnapshotPackages ==
  /\ \A k \in 1..Len(log) :
       log[k].op \in GitOps \cup WriteOps =>
         packages[NameIdx(log[k].pkg)].snapshot
  /\ \A k \in 1..Len(log) :
       log[k].op = "skip" => ~packages[NameIdx(log[k].pkg)].snapshot
  /\ \A k \in 2..Len(log) :
       log[k - 1].pkg # "" =>
         /\ log[k].pkg # ""
         /\ NameIdx(log[k - 1].pkg) <= NameIdx(log[k].pkg)
  /\ IsPrefix(ClonedNames, SnapshotNames)
  /\ (pc = "done" /\ githubToken # <<>>) =>
       /\ ClonedNames = SnapshotNames
       /\ \A k \in 1..Len(packages) :
            IF packages[k].snapshot
              THEN /\ \A op \in FatalOps \cup WriteOps \cup {"rm -rf"} :
                        Count(packages[k].name, op) = 1
                   /\ Count(packages[k].name, "skip") = 0
              ELSE Count(packages[k].name, "skip") = 1

C4_Witness ==
  /\ pc = "done" /\ githubToken # <<>>
  /\ \E j, k \in 1..Len(packages) :
       j < k /\ ~packages[j].snapshot /\ packages[k].snapshot
  /\ \A k \in 1..Len(log) : log[k].ok

\* C5: a failed clone, commit-signing config, add, commit, tag or push is
\* reported with its arguments and is the last step of the run, which ends
\* by the throw (no return code); the throw leaves every mirror as it was.
C5_Inv ==
  \A k \in 1..Len(log) :
    (log[k].pkg # "" /\ log[k].op \in FatalOps /\ ~log[k].ok) =>
      /\ k = Len(log)
      /\ pc = "thrown" /\ exitCode = -1
      /\ errors # <<>> /\ errors[Len(errors)] = log[k]
      /\ NameIdx(log[k].pkg) = i

C5_FatalFailureAborts ==
  [](C5_Inv) /\ [][pc' = "thrown" => mirror' = mirror]_vars

C5_Witness ==
  /\ pc = "thrown" /\ i = 2
  /\ Count(packages[1].name, "push --tags") = 1
  /\ log[Len(log)].op = "commit" /\ log[Len(log)].pkg = packages[2].name
  /\ mirror[1] # mirror[2]

\* C6 (as stated): no outcome of the commands of steps (b) and (c) aborts
\* the sequence.
C6_BranchAndRmNeverAbort ==
  pc = "thrown" => log[Len(log)].op \notin {"checkout", "checkout -b", "rm -rf"}

\* C6 (amended): a failed `git checkout <branch>` is followed by
\* `git checkout -b <branch>`; a successful one of the two and any outcome of
\* `git rm` lead on to the removal and to the copy; a failed
\* `git checkout -b` aborts the run.
C6_ToleratedFailures ==
  \A k \in 1..Len(log) :
    /\ (log[k].op = "checkout" /\ ~log[k].ok) =>
         IF k = Len(log) THEN pc = "checkoutB"
         ELSE /\ log[k + 1].op = "checkout -b"
              /\ log[k + 1].arg = log[k].arg
              /\ log[k + 1].pkg = log[k].pkg
    /\ (log[k].op \in {"checkout", "checkout -b"} /\ log[k].ok) =>
         IF k = Len(log) THEN pc = "rm"
         ELSE log[k + 1].op = "rm -rf" /\ log[k + 1].pkg = log[k].pkg
    /\ log[k].op = "rm -rf" =>
         IF k = Len(log) THEN pc = "copy"
         ELSE log[k + 1].op = "copy" /\ log[k + 1].pkg = log[k].pkg
    /\ (log[k].op = "checkout -b" /\ ~log[k].ok) =>
         k = Len(log) /\ pc = "thrown"

C6_Witness ==
  \E k \in 1..Len(log) :
    /\ k + 3 <= Len(log)
    /\ log[k].op = "checkout" /\ ~log[k].ok
    /\ log[k + 1].op = "checkout -b" /\ log[k + 1].ok
    /\ log[k + 2].op = "rm -rf" /\ ~log[k + 2].ok
    /\ log[k + 3].op = "copy" /\ log[k + 3].ok

\* C7: the steps of a package follow the fixed order clone, checkout (or
\* checkout -b after a failed checkout), rm, copy, gpgSign config, README,
\* uniqueId, add, commit, tag, push, push --tags, none of the steps from rm on
\* being skipped; a push follows a successful commit and a successful tag of
\* snapshotHash, and the copy follows the removal.
C7_FixedStepOrder ==
  \A k \in 1..Len(log) :
    log[k].pkg # "" /\ log[k].op # "skip" =>
      /\ Rank(log[k].op) > 0
      /\ log[k].op = "clone" => k = 1 \/ log[k - 1].pkg # log[k].pkg
      /\ log[k].op # "clone" => k > 1 /\ log[k - 1].pkg = log[k].pkg
      /\ log[k].op = "checkout" => log[k - 1].op = "clone" /\ log[k - 1].ok
      /\ log[k].op = "checkout -b" =>
           log[k - 1].op = "checkout" /\ ~log[k - 1].ok
      /\ log[k].op = "rm -rf" =>
           /\ log[k - 1].op \in {"clone", "checkout", "checkout -b"}
           /\ log[k - 1].ok
      /\ log[k].op = "copy" => log[k - 1].op = "rm -rf"
      /\ Rank(log[k].op) > 5 =>
           /\ Rank(log[k - 1].op) = Rank(log[k].op) - 1
           /\ log[k - 1].ok
      /\ log[k].op = "tag" => log[k].arg = packages[NameIdx(log[k].pkg)].snapshotHash
      /\ log[k].op \in {"push", "push --tags"} =>
           /\ \E j \in 1..(k - 1) :
                log[j].pkg = log[k].pkg /\ log[j].op = "commit" /\ log[j].ok
           /\ \E j \in 1..(k - 1) :
                log[j].pkg = log[k].pkg /\ log[j].op = "tag" /\ log[j].ok
      /\ log[k].op = "copy" =>
           \E j \in 1..(k - 1) : log[j].pkg = log[k].pkg /\ log[j].op = "rm -rf"

C7_Witness ==
  \E k \in 1..Len(log) :
    /\ log[k].op = "push --tags" /\ log[k].ok
    /\ k > 12 /\ log[k - 12].op = "clone" /\ log[k - 12].pkg = log[k].pkg

\* The package whose README has been written and not yet pushed.
ReadmeWritten == pc \in {"uniqueId", "add", "commit", "tag", "push"}
RmFailed == \E k \in 1..Len(log) :
              log[k].pkg = Pkg.name /\ log[k].op = "rm -rf" /\ ~log[k].ok
MirrorReadme == IF mirror[i]["README.md"] = NoFile THEN <<>>
                ELSE mirror[i]["README.md"]

\* C8 (as stated): the README written by a run is one header followed by
\* the README the mirror held before the run.
C8_MirrorReadmePreserved ==
  ReadmeWritten => clone["README.md"] = readmeHeaderFn(Pkg) \o MirrorReadme

\* C8 (amended): the README written by a run is one header followed by the
\* README of the built output when the package ships one; otherwise by the
\* README the mirror held before the run if the removal of tracked files
\* failed, and by nothing if it succeeded.
C8_OneHeaderAboveCurrentReadme ==
  ReadmeWritten =>
    /\ SubSeq(clone["README.md"], 1, 5) =
         <<"# Snapshot build of", Pkg.name, "npm install", Pkg.snapshotRepo, "----">>
    /\ LET rest == SubSeq(clone["README.md"], 6, Len(clone["README.md"]))
       IN  IF distReadme THEN rest = <<Pkg.name, "package readme">>
           ELSE IF RmFailed THEN rest = MirrorReadme
           ELSE rest = <<>>

C8_Witness ==
  /\ run = 2 /\ pc = "add" /\ ~distReadme /\ RmFailed
  /\ Len(clone["README.md"]) >= 10
  /\ SubSeq(clone["README.md"], 6, 10) = readmeHeaderFn(Pkg)

\* C9: the uniqueId file written for a package differs from the one at the
\* head of its mirror.
C9_UniqueIdDiffers ==
  pc \in {"add", "commit"} => clone["uniqueId"] # mirror[i]["uniqueId"]

\* C10: every push names a non-empty branch that was checked out or created
\* in the same clone before.
C10_PushAfterCheckout ==
  \A k \in 1..Len(log) :
    log[k].op \in {"push", "push --tags"} =>
      /\ log[k].arg # ""
      /\ \E j \in 1..(k - 1) :
           /\ log[j].pkg = log[k].pkg
           /\ log[j].op \in {"checkout", "checkout -b"}
           /\ log[j].ok
           /\ log[j].arg = log[k].arg
====
